---- MODULE Spec2Model ----
(***************************************************************************)
(* Model of pkg/svc/aws_api.go: the aggregation functions that turn AWS    *)
(* CostExplorer ResultByTime records into CostInsights structures.         *)
(*                                                                         *)
(* float64 values are modelled as exact rationals [num, den] in lowest     *)
(* terms (binary rounding error is not modelled).  Amount strings are      *)
(* sequences of one-character strings, parsed as strconv.ParseFloat parses *)
(* plain decimal notation.  A Go map is a TLA+ function; ranging over a    *)
(* map visits its keys in any order, so a function whose result depends on *)
(* that order is modelled by the set of results it can return.             *)
(***************************************************************************)
EXTENDS Integers, Sequences, FiniteSets, TLC

\* ---------------------------------------------------------------- bounds
MaxPeriods == 3
MaxGroups == 2

\* ------------------------------------------------------------- rationals
Abs(x) == IF x < 0 THEN -x ELSE x

RECURSIVE GCD(_, _)
GCD(a, b) == IF b = 0 THEN a ELSE GCD(b, a % b)

\* the float64 value n/d, d # 0, in lowest terms with a positive denominator
Rat(n, d) ==
    LET g == GCD(Abs(n), Abs(d))
        s == IF d < 0 THEN -1 ELSE 1
    IN  [num |-> (s * n) \div g, den |-> (s * d) \div g]

Zero == [num |-> 0, den |-> 1]

RAdd(a, b) == Rat(a.num * b.den + b.num * a.den, a.den * b.den)
RSub(a, b) == Rat(a.num * b.den - b.num * a.den, a.den * b.den)
RMul(a, b) == Rat(a.num * b.num, a.den * b.den)
\* faulty variant: the value is not divided
RDivIntNone(a, n) == a

RDivInt(a, n) == Rat(a.num, a.den * n)
RLt(a, b) == a.num * b.den < b.num * a.den
RLe(a, b) == a.num * b.den <= b.num * a.den
RGt(a, b) == RLt(b, a)

\* math.Round: nearest integer, halves away from zero
Round(a) ==
    LET m == (2 * Abs(a.num) + a.den) \div (2 * a.den)
    IN  Rat(IF a.num < 0 THEN -m ELSE m, 1)

\* --------------------------------------------------- strconv.ParseFloat
DigitChars == <<"0", "1", "2", "3", "4", "5", "6", "7", "8", "9">>

IsDigit(c) == \E i \in 1..10 : DigitChars[i] = c

DigitVal(c) == (CHOOSE i \in 1..10 : DigitChars[i] = c) - 1

AllDigits(s) == \A i \in 1..Len(s) : IsDigit(s[i])

RECURSIVE DigitsValue(_)
DigitsValue(s) ==
    IF s = <<>> THEN 0
    ELSE 10 * DigitsValue(SubSeq(s, 1, Len(s) - 1)) + DigitVal(s[Len(s)])

RECURSIVE Pow10(_)
Pow10(k) == IF k = 0 THEN 1 ELSE 10 * Pow10(k - 1)

\* [sign] digits [. digits]; anything else is a syntax error, for which
\* ParseFloat returns 0 together with the error
ParseFloat(s) ==
    LET neg  == s # <<>> /\ s[1] = "-"
        body == IF neg \/ (s # <<>> /\ s[1] = "+") THEN Tail(s) ELSE s
        dots == {i \in 1..Len(body) : body[i] = "."}
        dot  == IF dots = {} THEN Len(body) + 1 ELSE CHOOSE i \in dots : TRUE
        ip   == SubSeq(body, 1, dot - 1)
        fp   == SubSeq(body, dot + 1, Len(body))
        ok   == /\ Cardinality(dots) <= 1
                /\ AllDigits(ip) /\ AllDigits(fp)
                /\ Len(ip) + Len(fp) > 0
        mag  == Rat(DigitsValue(ip) * Pow10(Len(fp)) + DigitsValue(fp), Pow10(Len(fp)))
    IN  IF ok
        THEN [val |-> IF neg THEN RSub(Zero, mag) ELSE mag, err |-> FALSE]
        ELSE [val |-> Zero, err |-> TRUE]

\* ------------------------------------------------------ account profiles
DeveloperAccount == "DEVELOPER"
BusinessAccount == "BUSINESS"
EnterpriseAccount == "ENTERPRISE"

SupportCostThreshold(mult, start, end) ==
    [CostMultiplier |-> mult, CostStartInterval |-> start, CostEndInterval |-> end]

AwsAccount(type, min, thresholds) ==
    [AccountType |-> type, MinSupportCost |-> min, SupportCostThresholds |-> thresholds]

AwsAccounts ==
    [t \in {DeveloperAccount, BusinessAccount, EnterpriseAccount} |->
        CASE t = DeveloperAccount ->
               AwsAccount(DeveloperAccount, Rat(29, 1),
                   << SupportCostThreshold(Rat(3, 100), Rat(0, 1), Rat(0, 1)) >>)
          [] t = BusinessAccount ->
               AwsAccount(BusinessAccount, Rat(100, 1),
                   << SupportCostThreshold(Rat(10, 100), Rat(0, 1), Rat(10000, 1)),
                      SupportCostThreshold(Rat(7, 100), Rat(10000, 1), Rat(80000, 1)),
                      SupportCostThreshold(Rat(5, 100), Rat(80000, 1), Rat(250000, 1)),
                      SupportCostThreshold(Rat(3, 100), Rat(250000, 1), Rat(0, 1)) >>)
          [] t = EnterpriseAccount ->
               AwsAccount(EnterpriseAccount, Rat(15000, 1),
                   << SupportCostThreshold(Rat(10, 100), Rat(0, 1), Rat(150000, 1)),
                      SupportCostThreshold(Rat(7, 100), Rat(150000, 1), Rat(500000, 1)),
                      SupportCostThreshold(Rat(5, 100), Rat(500000, 1), Rat(1000000, 1)),
                      SupportCostThreshold(Rat(3, 100), Rat(1000000, 1), Rat(0, 1)) >>)]

\* AwsAccounts[t] of Go: the zero AwsAccount when t is not a key of the map
AwsAccountsLookup(t) ==
    IF t \in DOMAIN AwsAccounts THEN AwsAccounts[t]
    ELSE AwsAccount("", Zero, <<>>)

\* ------------------------------------------------- CostExplorer records
NetAmortizedCost == "NetAmortizedCost"
UnblendedCost == "UnblendedCost"

\* values of the cost.aws.datasets setting: the one metric a query asks for
Datasets == {NetAmortizedCost, UnblendedCost}

MetricValue(amount) == [Amount |-> amount]

Dates == <<"2021-01-01", "2021-01-02", "2021-01-03", "2021-01-04",
           "2021-01-05", "2021-01-06", "2021-01-07", "2021-01-08">>

ResultByTime(i, total, groups) ==
    [TimePeriod |-> [Start |-> Dates[i]], Total |-> total, Groups |-> groups]

Group(key, metrics) == [Keys |-> <<key>>, Metrics |-> metrics]

\* Amount strings of a period's Total
TotalAmounts ==
    { <<"a", "b", "c">>, <<"-", "5">>, <<"0", ".", "4">>,
      <<"1", "0", "0", "0">>, <<"5", "0", "0", "0">>,
      <<"1", "0", "0", "0", "0">>, <<"4", "0", "0", "0", "0">>,
      <<"7", "0", "0", "0", "0">>, <<"1", "7", "0", "0", "0", "0">> }

\* Amount strings and keys of a group
GroupAmounts == { <<"5">>, <<"-", "5">>, <<"0", ".", "4">> }
GroupKeys == {"EC2", "S3", "RDS"}

\* responses to a query without GroupBy: Total holds the dataset, no Groups
PlainResults ==
    UNION { { [i \in 1..n |-> ResultByTime(i, [m \in {d} |-> MetricValue(a[i])], <<>>)] :
                a \in [1..n -> TotalAmounts], d \in Datasets } : n \in 0..MaxPeriods }

GroupChoices ==
    { Group(k, [m \in {UnblendedCost} |-> MetricValue(a)]) : k \in GroupKeys, a \in GroupAmounts }

\* the sequences of n group lists that hold at most `budget` groups together
RECURSIVE GroupLists(_, _)
GroupLists(n, budget) ==
    IF n = 0 THEN { <<>> }
    ELSE UNION { { <<gs>> \o rest : gs \in [1..k -> GroupChoices],
                                   rest \in GroupLists(n - 1, budget - k) } :
                 k \in 0..budget }

\* responses to a query with GroupBy: Total is empty, Groups hold the costs
GroupedResults ==
    UNION { { [i \in 1..n |-> ResultByTime(i, <<>>, gl[i])] : gl \in GroupLists(n, MaxGroups) } :
            n \in 0..MaxPeriods }

\* ------------------------------------------------------------ the code
\* viper settings the functions read; unset keys read as false and ""
ViperDefault == [support_cost |-> FALSE, account_type |-> "", cost_round |-> FALSE]

AccountTypeSettings == {DeveloperAccount, BusinessAccount, EnterpriseAccount, ""}

getAwsMetricAmount(metric, round) ==
    LET amount == ParseFloat(metric.Amount).val
    IN  IF round THEN Round(amount) ELSE amount

\* the values `for _, metric := range metrics { v = f(metric) }` can leave in v
lastMetric(metrics, round, initial) ==
    IF DOMAIN metrics = {} THEN {initial}
    ELSE { getAwsMetricAmount(metrics[m], round) : m \in DOMAIN metrics }

\* faulty variant: `>= 0` in place of `> 0`
isPositiveOrZero(amount) == RLe(Zero, amount)

isPositive(amount) == RGt(amount, Zero)

\* the sum loop of SupportCostForAWS; dereferencing the Amount of a metric
\* that Total does not hold is a nil pointer dereference
RECURSIVE sumDateAggregationAmounts(_, _)
sumDateAggregationAmounts(results, n) ==
    IF n = 0 THEN [panic |-> FALSE, val |-> Zero]
    ELSE LET before == sumDateAggregationAmounts(results, n - 1)
         IN  IF before.panic \/ NetAmortizedCost \notin DOMAIN results[n].Total
             THEN [panic |-> TRUE, val |-> Zero]
             ELSE [panic |-> FALSE,
                   val |-> RAdd(before.val,
                                ParseFloat(results[n].Total[NetAmortizedCost].Amount).val)]

\* faulty variant: the floor test without the first bracket's rate
belowMinimumNoRate(account, sum) == RLt(sum, account.MinSupportCost)

belowMinimum(account, sum) ==
    RLt(RMul(sum, account.SupportCostThresholds[1].CostMultiplier), account.MinSupportCost)

reachesEnd(sum, costThreshold) == RGt(costThreshold.CostEndInterval, sum)

\* faulty variant: a passed bracket adds nothing
exceedsEndNever(sum, costThreshold) == FALSE

exceedsEnd(sum, costThreshold) == RGt(sum, costThreshold.CostEndInterval)

\* the bracket loop of SupportCostForAWS from bracket i on
RECURSIVE walkThresholds(_, _, _, _)
walkThresholds(thresholds, i, sum, supportCost) ==
    IF i > Len(thresholds) THEN supportCost
    ELSE LET costThreshold == thresholds[i]
             span == RMul(RSub(costThreshold.CostEndInterval, costThreshold.CostStartInterval),
                          costThreshold.CostMultiplier)
             part == RMul(RSub(sum, costThreshold.CostStartInterval),
                          costThreshold.CostMultiplier)
         IN  IF RGt(costThreshold.CostStartInterval, sum) THEN supportCost
             ELSE IF costThreshold.CostEndInterval # Zero
                  THEN IF reachesEnd(sum, costThreshold)
                       THEN RAdd(supportCost, part)
                       ELSE walkThresholds(thresholds, i + 1, sum,
                                IF exceedsEnd(sum, costThreshold)
                                THEN RAdd(supportCost, span) ELSE supportCost)
                  ELSE RAdd(supportCost, part)

Panic == [panic |-> TRUE, val |-> <<>>, err |-> "nil"]
Return(v) == [panic |-> FALSE, val |-> v, err |-> "nil"]

SupportCostForAWS(account, results) ==
    LET sum == sumDateAggregationAmounts(results, Len(results))
    IN  IF sum.panic THEN Panic
        ELSE IF account.SupportCostThresholds = <<>> THEN Panic
        ELSE IF belowMinimum(account, sum.val) THEN Return(account.MinSupportCost)
        ELSE Return(walkThresholds(account.SupportCostThresholds, 1, sum.val, Zero))

DateAggregation(date, amount) == [Date |-> date, Amount |-> amount]

\* the period loop of aggregationForAWS over results[1..n]: the series it can build
RECURSIVE dateSeries(_, _, _, _)
dateSeries(results, n, supCost, round) ==
    IF n = 0 THEN { <<>> }
    ELSE LET share == RDivInt(supCost, Len(results))
             amounts == IF DOMAIN results[n].Total = {} THEN {Zero}
                        ELSE { RAdd(v, share) : v \in lastMetric(results[n].Total, round, Zero) }
         IN  { IF isPositive(a)
               THEN Append(s, DateAggregation(results[n].TimePeriod.Start, a))
               ELSE s : s \in dateSeries(results, n - 1, supCost, round), a \in amounts }

aggregationForAWS(results, viper) ==
    LET support == IF viper.support_cost
                   THEN SupportCostForAWS(AwsAccountsLookup(viper.account_type), results)
                   ELSE Return(Zero)
    IN  IF support.panic THEN {Panic}
        ELSE { Return(s) : s \in dateSeries(results, Len(results), support.val, viper.cost_round) }

\* the groups of results[1..n] in the order the nested loops visit them, each
\* with the index (from 0) and the start date of its period
RECURSIVE scannedGroups(_, _)
scannedGroups(results, n) ==
    IF n = 0 THEN <<>>
    ELSE scannedGroups(results, n - 1) \o
         [j \in 1..Len(results[n].Groups) |->
            [i |-> n - 1, Date |-> results[n].TimePeriod.Start,
             Key |-> results[n].Groups[j].Keys[1],
             Metrics |-> results[n].Groups[j].Metrics]]

\* faulty variant: slots counted from 1
newIndexFromOne(keys) == Cardinality(DOMAIN keys) + 1

newIndex(keys) == Cardinality(DOMAIN keys)

\* the map of getGroupedAwsKeyIndex after the first n scanned groups
RECURSIVE indexKeys(_, _)
indexKeys(groups, n) ==
    IF n = 0 THEN <<>>
    ELSE LET keys == indexKeys(groups, n - 1)
             key == groups[n].Key
         IN  IF key \in DOMAIN keys THEN keys
             ELSE [k \in DOMAIN keys \cup {key} |->
                     IF k = key THEN newIndex(keys) ELSE keys[k]]

getGroupedAwsKeyIndex(results) ==
    LET groups == scannedGroups(results, Len(results))
    IN  indexKeys(groups, Len(groups))

\* the orders in which `range keys` can visit the keys of a map
RangeOrders(keys) ==
    LET n == Cardinality(DOMAIN keys)
    IN  { o \in [1..n -> DOMAIN keys] : \A a, b \in 1..n : o[a] = o[b] => a = b }

\* costs[index] (index from 0) is held at position index + 1
KeyOfIndex(keys, index) == CHOOSE k \in DOMAIN keys : keys[k] = index

ProductCost(id, aggregation) == [Id |-> id, Aggregation |-> aggregation]

\* the costs arrays the group loop can build from the first n scanned groups
RECURSIVE groupedSeries(_, _, _, _)
groupedSeries(groups, n, keys, round) ==
    IF n = 0
    THEN { [p \in 1..Cardinality(DOMAIN keys) |-> ProductCost(KeyOfIndex(keys, p - 1), <<>>)] }
    ELSE LET g == groups[n]
             slot == keys[g.Key] + 1
         IN  { IF isPositive(a)
               THEN [costs EXCEPT ![slot].Aggregation = Append(@, DateAggregation(g.Date, a))]
               ELSE costs :
               costs \in groupedSeries(groups, n - 1, keys, round),
               a \in lastMetric(g.Metrics, round, Zero) }

\* filteredCosts: the kept elements of costs, in the order the keys are visited
\* (kept: the positions of costs that pass the test of the loop)
RECURSIVE filterCosts(_, _, _, _, _)
filterCosts(order, n, keys, costs, kept) ==
    IF n = 0 THEN <<>>
    ELSE LET before == filterCosts(order, n - 1, keys, costs, kept)
             index == keys[order[n]]
         IN  IF index + 1 \in kept THEN Append(before, costs[index + 1]) ELSE before

\* faulty variant: the filter keeps every series
hasAggregationAlways(cost) == TRUE

hasAggregation(cost) == Len(cost.Aggregation) > 0

getGroupedAwsProducts(results, round) ==
    LET keys == getGroupedAwsKeyIndex(results)
        groups == scannedGroups(results, Len(results))
    IN  { Return(filterCosts(order, Len(order), keys, costs,
                               {p \in DOMAIN costs : hasAggregation(costs[p])})) :
            costs \in groupedSeries(groups, Len(groups), keys, round),
            order \in RangeOrders(keys) }

ProjectCost(id, aggregation) == [Id |-> id, Aggregation |-> aggregation]

getGroupedAwsProjects(results, round) ==
    LET keys == getGroupedAwsKeyIndex(results)
        groups == scannedGroups(results, Len(results))
    IN  { Return(filterCosts(order, Len(order), keys, costs,
                               {p \in DOMAIN costs : hasAggregation(costs[p])})) :
            costs \in groupedSeries(groups, Len(groups), keys, round),
            order \in RangeOrders(keys) }

\* Change (utils.ChangeOfEntity, another package) and Entities are left out
Entity(id, aggregation) == [Id |-> id, Aggregation |-> aggregation]

midPointOf(results) == Len(results) \div 2

\* faulty variant: the midpoint period counted as "before"
bucketOfAfterMid(i, midPoint) == IF i > midPoint THEN 1 ELSE 0

\* the bucket (from 0) of Aggregation that period i (from 0) adds to
bucketOf(i, midPoint) == IF i >= midPoint THEN 1 ELSE 0

\* the costs arrays the group loop of getEntityAwsProducts can build
RECURSIVE entityBuckets(_, _, _, _, _)
entityBuckets(groups, n, keys, midPoint, round) ==
    IF n = 0
    THEN { [p \in 1..Cardinality(DOMAIN keys) |->
              Entity(KeyOfIndex(keys, p - 1), <<Zero, Zero>>)] }
    ELSE LET g == groups[n]
             slot == keys[g.Key] + 1
             b == bucketOf(g.i, midPoint) + 1
         IN  { [costs EXCEPT ![slot].Aggregation[b] = RAdd(@, amount)] :
               costs \in entityBuckets(groups, n - 1, keys, midPoint, round),
               amount \in lastMetric(g.Metrics, round, Zero) }

\* faulty variant: an entity is kept only with cost in both buckets
hasCostInBoth(entity) == entity.Aggregation[1] # Zero /\ entity.Aggregation[2] # Zero

hasCost(entity) == ~(entity.Aggregation[1] = Zero /\ entity.Aggregation[2] = Zero)

getEntityAwsProducts(results, round) ==
    LET keys == getGroupedAwsKeyIndex(results)
        groups == scannedGroups(results, Len(results))
    IN  { Return(filterCosts(order, Len(order), keys, costs,
                               {p \in DOMAIN costs : hasCost(costs[p])})) :
            costs \in entityBuckets(groups, Len(groups), keys, midPointOf(results), round),
            order \in RangeOrders(keys) }

\* faulty variant: the "before" bucket is added to both totals
addAggregationBeforeOnly(aggregate, e) ==
    << RAdd(aggregate[1], e.Aggregation[1]), RAdd(aggregate[2], e.Aggregation[1]) >>

\* one round of the loop over entity.Entities.Service
addAggregation(aggregate, e) ==
    << RAdd(aggregate[1], e.Aggregation[1]), RAdd(aggregate[2], e.Aggregation[2]) >>

\* <<startAggregate, endAggregate>> after the first n entities
RECURSIVE sumAggregations(_, _)
sumAggregations(entities, n) ==
    IF n = 0 THEN <<Zero, Zero>>
    ELSE addAggregation(sumAggregations(entities, n - 1), entities[n])

\* products a ProductInsightsRequest can name
RequestProducts == {"EC2", "S3"}

\* the parent entity (Change left out, as for Entity)
GetProductInsights(product, results, round) ==
    { Return([Id |-> product, Entities |-> entities.val,
              Aggregation |-> sumAggregations(entities.val, Len(entities.val))]) :
        entities \in getEntityAwsProducts(results, round) }

\* ------------------------------------------------------ the state machine
VARIABLES
    groupBy,   \* whether the CostExplorer query carried a GroupBy
    results,   \* resp.ResultsByTime, the periods the query returned
    viper,     \* the settings as the call read them
    account,   \* the account argument of SupportCostForAWS
    op,        \* the function called on results, "none" before the call
    ret        \* what the call returned

vars == <<groupBy, results, viper, account, op, ret>>

\* account arguments: the configured profiles, the zero profile, and profiles
\* whose bracket list has no unbounded last bracket
Profiles ==
    { AwsAccounts[t] : t \in DOMAIN AwsAccounts } \cup
    { AwsAccountsLookup(""),
      AwsAccount("CAPPED", Rat(100, 1),
          << SupportCostThreshold(Rat(10, 100), Rat(0, 1), Rat(10000, 1)),
             SupportCostThreshold(Rat(7, 100), Rat(10000, 1), Rat(80000, 1)) >>),
      AwsAccount("SPARSE", Rat(100, 1),
          << SupportCostThreshold(Rat(10, 100), Rat(0, 1), Rat(10000, 1)),
             SupportCostThreshold(Rat(5, 100), Rat(80000, 1), Rat(0, 1)) >>) }

Init ==
    /\ groupBy \in BOOLEAN
    /\ results \in IF groupBy THEN GroupedResults ELSE PlainResults
    /\ viper = ViperDefault
    /\ account = AwsAccountsLookup("")
    /\ op = "none"
    /\ ret = <<>>

\* GetGroupDailyCost / GetProjectDailyCost: the plain query, then aggregationForAWS
AggregationForAWS ==
    /\ op = "none" /\ ~groupBy
    /\ \E support \in BOOLEAN, type \in AccountTypeSettings, round \in BOOLEAN :
        /\ viper' = [support_cost |-> support, account_type |-> type, cost_round |-> round]
        /\ account' = IF support THEN AwsAccountsLookup(type) ELSE account
        /\ ret' \in aggregationForAWS(results, viper')
    /\ op' = "aggregationForAWS"
    /\ UNCHANGED <<groupBy, results>>

\* SupportCostForAWS called on its own with any account profile
SupportCost ==
    /\ op = "none" /\ ~groupBy
    /\ \E a \in Profiles :
        /\ account' = a
        /\ ret' = SupportCostForAWS(a, results)
    /\ op' = "SupportCostForAWS"
    /\ UNCHANGED <<groupBy, results, viper>>

GroupedAwsKeyIndex ==
    /\ op = "none" /\ groupBy
    /\ ret' = Return(getGroupedAwsKeyIndex(results))
    /\ op' = "getGroupedAwsKeyIndex"
    /\ UNCHANGED <<groupBy, results, viper, account>>

GroupedAwsProducts ==
    /\ op = "none" /\ groupBy
    /\ \E round \in BOOLEAN :
        /\ viper' = [viper EXCEPT !.cost_round = round]
        /\ ret' \in getGroupedAwsProducts(results, round)
    /\ op' = "getGroupedAwsProducts"
    /\ UNCHANGED <<groupBy, results, account>>

GroupedAwsProjects ==
    /\ op = "none" /\ groupBy
    /\ \E round \in BOOLEAN :
        /\ viper' = [viper EXCEPT !.cost_round = round]
        /\ ret' \in getGroupedAwsProjects(results, round)
    /\ op' = "getGroupedAwsProjects"
    /\ UNCHANGED <<groupBy, results, account>>

EntityAwsProducts ==
    /\ op = "none" /\ groupBy
    /\ \E round \in BOOLEAN :
        /\ viper' = [viper EXCEPT !.cost_round = round]
        /\ ret' \in getEntityAwsProducts(results, round)
    /\ op' = "getEntityAwsProducts"
    /\ UNCHANGED <<groupBy, results, account>>

ProductInsights ==
    /\ op = "none" /\ groupBy
    /\ \E product \in RequestProducts, round \in BOOLEAN :
        /\ viper' = [viper EXCEPT !.cost_round = round]
        /\ ret' \in GetProductInsights(product, results, round)
    /\ op' = "GetProductInsights"
    /\ UNCHANGED <<groupBy, results, account>>

Next ==
    \/ AggregationForAWS
    \/ SupportCost
    \/ GroupedAwsKeyIndex
    \/ GroupedAwsProducts
    \/ GroupedAwsProjects
    \/ EntityAwsProducts
    \/ ProductInsights

Spec == Init /\ [][Next]_vars

\* ------------------------------------------------------------ the claims
called(f) == op = f /\ ~ret.panic

\* the summed total SupportCostForAWS works on
total == sumDateAggregationAmounts(results, Len(results)).val

passesFloor(a) ==
    /\ a.SupportCostThresholds # <<>>
    /\ ~RLt(RMul(total, a.SupportCostThresholds[1].CostMultiplier), a.MinSupportCost)

spanOf(t) == RMul(RSub(t.CostEndInterval, t.CostStartInterval), t.CostMultiplier)

\* the sum of the full spans of the brackets among the first n that satisfy `in`
RECURSIVE spans(_, _, _)
spans(thresholds, n, in) ==
    IF n = 0 THEN Zero
    ELSE IF n \in in THEN RAdd(spans(thresholds, n - 1, in), spanOf(thresholds[n]))
    ELSE spans(thresholds, n - 1, in)

\* single-period responses to compare a call with
OneDay == { r \in PlainResults : Len(r) = 1 /\ NetAmortizedCost \in DOMAIN r[1].Total }

\* C1: SupportCostForAWS is monotonic non-decreasing in the summed total, for
\* every profile of AwsAccounts: a lower total never gets a higher surcharge.
C1_Monotonic ==
    (called("SupportCostForAWS") /\ account \in {AwsAccounts[t] : t \in DOMAIN AwsAccounts}) =>
        \A r \in OneDay :
            LET low == SupportCostForAWS(account, r)
                t1 == sumDateAggregationAmounts(r, 1).val
            IN  RLe(t1, total) => RLe(low.val, ret.val)

\* C2: no gap or double count at a bracket boundary: for a total equal to the
\* finite upper bound U of a bracket (and passing the floor check), the
\* surcharge is the sum of the full spans of the brackets whose upper bound
\* is at most U.
C2_BoundaryContinuous ==
    (called("SupportCostForAWS") /\ passesFloor(account)) =>
        LET ts == account.SupportCostThresholds
        IN  \A j \in 1..Len(ts) :
                (ts[j].CostEndInterval # Zero /\ total = ts[j].CostEndInterval) =>
                    ret.val = spans(ts, Len(ts),
                                    { i \in 1..Len(ts) :
                                        /\ ts[i].CostEndInterval # Zero
                                        /\ RLe(ts[i].CostEndInterval, total) })

floorApplies ==
    /\ account.SupportCostThresholds # <<>>
    /\ RLt(RMul(total, account.SupportCostThresholds[1].CostMultiplier),
           account.MinSupportCost)

\* C3: surcharge floor: for a profile with at least one bracket and a total
\* (zero and negative included) with total * firstRate < minimum,
\* SupportCostForAWS returns exactly the minimum, with no bracket sum in it.
C3_Floor ==
    (called("SupportCostForAWS") /\ floorApplies) => ret.val = account.MinSupportCost

C3_Witness ==
    /\ called("SupportCostForAWS") /\ floorApplies
    /\ results # <<>> /\ total.num < 0
    /\ Len(account.SupportCostThresholds) > 1
    /\ ret.val = account.MinSupportCost

\* brackets in order, each starting where the one before ends, the last unbounded
contiguous(ts) ==
    /\ ts # <<>>
    /\ ts[Len(ts)].CostEndInterval = Zero
    /\ \A i \in 1..(Len(ts) - 1) :
        /\ ts[i].CostEndInterval # Zero
        /\ RLt(ts[i].CostStartInterval, ts[i].CostEndInterval)
        /\ ts[i + 1].CostStartInterval = ts[i].CostEndInterval

strictlyInside(t) ==
    /\ RLt(t.CostStartInterval, total)
    /\ t.CostEndInterval # Zero => RLt(total, t.CostEndInterval)

\* C4: progressive bracket sum: with contiguous ordered brackets ending in an
\* unbounded one, a total that passes the floor check and lies strictly inside
\* bracket j gets the full spans of the brackets before j plus
\* (total - lowerBound_j) * rate_j; BUSINESS gives 3800 for 50000, 500 for 5000.
C4_ProgressiveSum ==
    (called("SupportCostForAWS") /\ contiguous(account.SupportCostThresholds)
        /\ passesFloor(account)) =>
        LET ts == account.SupportCostThresholds
        IN  /\ \A j \in 1..Len(ts) :
                strictlyInside(ts[j]) =>
                    ret.val = RAdd(spans(ts, j - 1, 1..(j - 1)),
                                   RMul(RSub(total, ts[j].CostStartInterval),
                                        ts[j].CostMultiplier))
            /\ (account = AwsAccounts[BusinessAccount] /\ total = Rat(50000, 1)) =>
                    ret.val = Rat(3800, 1)
            /\ (account = AwsAccounts[BusinessAccount] /\ total = Rat(5000, 1)) =>
                    ret.val = Rat(500, 1)

C4_Witness ==
    /\ called("SupportCostForAWS")
    /\ account = AwsAccounts[BusinessAccount]
    /\ total = Rat(50000, 1)
    /\ strictlyInside(account.SupportCostThresholds[2])
    /\ ret.val = Rat(3800, 1)

\* C5: no zero or negative leakage: every DateAggregation returned by
\* aggregationForAWS, and every one inside a series returned by
\* getGroupedAwsProducts or getGroupedAwsProjects, has an amount above zero.
C5_NoLeakage ==
    /\ called("aggregationForAWS") =>
        \A i \in DOMAIN ret.val : ret.val[i].Amount.num > 0
    /\ (called("getGroupedAwsProducts") \/ called("getGroupedAwsProjects")) =>
        \A i \in DOMAIN ret.val :
            \A j \in DOMAIN ret.val[i].Aggregation :
                ret.val[i].Aggregation[j].Amount.num > 0

C5_Witness ==
    /\ called("aggregationForAWS")
    /\ Len(ret.val) > 0
    /\ Len(ret.val) < Len(results)

\* the places <<period, group>> of the groups of results
places == UNION { { <<i, j>> : j \in DOMAIN results[i].Groups } : i \in DOMAIN results }

keyAt(pl) == results[pl[1]].Groups[pl[2]].Keys[1]

scannedBefore(p, q) == p[1] < q[1] \/ (p[1] = q[1] /\ p[2] < q[2])

firstSeen(k) ==
    CHOOSE p \in places :
        /\ keyAt(p) = k
        /\ \A q \in places : keyAt(q) = k => (q = p \/ scannedBefore(p, q))

\* C6: getGroupedAwsKeyIndex gives each distinct first-level key a slot in
\* first-seen order of one scan of periods then groups: the slots are exactly
\* 0..n-1 for n distinct keys, no two keys share one, and the mapping is the
\* one that order fixes (so a second run on the same periods gives it again).
C6_FirstSeenSlots ==
    called("getGroupedAwsKeyIndex") =>
        LET keys == ret.val
            distinct == { keyAt(p) : p \in places }
        IN  /\ DOMAIN keys = distinct
            /\ { keys[k] : k \in DOMAIN keys } = 0..(Cardinality(distinct) - 1)
            /\ \A a, b \in DOMAIN keys : keys[a] = keys[b] => a = b
            /\ \A k \in DOMAIN keys :
                keys[k] = Cardinality({ o \in distinct :
                                          scannedBefore(firstSeen(o), firstSeen(k)) })

C6_Witness ==
    /\ called("getGroupedAwsKeyIndex")
    /\ Cardinality(DOMAIN ret.val) = 2
    /\ \E k \in DOMAIN ret.val : ret.val[k] = 1 /\ firstSeen(k)[1] = 3

\* the amount the code takes from a group (its one metric)
amountOf(group) == CHOOSE v \in lastMetric(group.Metrics, viper.cost_round, Zero) : TRUE

\* the sum of the amounts of the first n of `groups` that carry key
RECURSIVE groupsSum(_, _, _)
groupsSum(groups, n, key) ==
    IF n = 0 THEN Zero
    ELSE IF groups[n].Keys[1] = key
         THEN RAdd(groupsSum(groups, n - 1, key), amountOf(groups[n]))
         ELSE groupsSum(groups, n - 1, key)

\* the sum of the amounts of key over the periods lo..hi (counted from 1)
RECURSIVE periodsSum(_, _, _)
periodsSum(lo, hi, key) ==
    IF hi < lo THEN Zero
    ELSE RAdd(periodsSum(lo, hi - 1, key),
              groupsSum(results[hi].Groups, Len(results[hi].Groups), key))

\* C7: two-period split: with n periods and midpoint n / 2 (integer division)
\* the amounts of the periods with index below the midpoint go to bucket 0
\* and the others to bucket 1, so every returned [before, after] pair is the
\* pair of the key's sums over the first n / 2 periods and over the rest
\* (for n = 2k + 1, k periods before and k + 1 after).
C7_TwoPeriodSplit ==
    called("getEntityAwsProducts") =>
        LET n == Len(results)
            k == n \div 2
        IN  \A e \in DOMAIN ret.val :
                ret.val[e].Aggregation =
                    << periodsSum(1, k, ret.val[e].Id), periodsSum(k + 1, n, ret.val[e].Id) >>

C7_Witness ==
    /\ called("getEntityAwsProducts")
    /\ Len(results) = 3
    /\ \E e \in DOMAIN ret.val :
        /\ periodsSum(1, 1, ret.val[e].Id) # Zero
        /\ periodsSum(2, 2, ret.val[e].Id) # Zero
        /\ ret.val[e].Aggregation =
              << periodsSum(1, 1, ret.val[e].Id), periodsSum(2, 2, ret.val[e].Id) >>

hasNetAmortizedCost == \A i \in DOMAIN results : NetAmortizedCost \in DOMAIN results[i].Total

\* C8: a degenerate bracket configuration is not fatal: for any account
\* profile (an empty bracket list, or no unbounded last bracket, included)
\* SupportCostForAWS returns the surcharge accumulated so far, and
\* aggregationForAWS with the support-cost flag on completes with its series.
C8_DegenerateNonFatal ==
    ((op = "SupportCostForAWS" \/ (op = "aggregationForAWS" /\ viper.support_cost))
        /\ hasNetAmortizedCost) => ~ret.panic

\* C9: an empty period list gives every aggregator an empty result and a nil
\* error, with no failure, whether the support-cost flag is off or on.
C9_EmptyInput ==
    (results = <<>> /\ op \in { "aggregationForAWS", "getGroupedAwsProducts",
                               "getGroupedAwsProjects", "getEntityAwsProducts" }) =>
        (~ret.panic /\ ret.val = <<>> /\ ret.err = "nil")

\* C10: getGroupedAwsProducts and getGroupedAwsProjects return the surviving
\* series in ascending Key Indexer slot order.
C10_SlotOrder ==
    (called("getGroupedAwsProducts") \/ called("getGroupedAwsProjects")) =>
        LET keys == getGroupedAwsKeyIndex(results)
        IN  \A a, b \in DOMAIN ret.val :
                a < b => keys[ret.val[a].Id] < keys[ret.val[b].Id]

\* the points (date, amount) of the first n of `groups` that carry key and a
\* positive amount
RECURSIVE positivePoints(_, _, _, _)
positivePoints(groups, n, date, key) ==
    IF n = 0 THEN <<>>
    ELSE IF groups[n].Keys[1] = key /\ amountOf(groups[n]).num > 0
         THEN Append(positivePoints(groups, n - 1, date, key),
                     [Date |-> date, Amount |-> amountOf(groups[n])])
         ELSE positivePoints(groups, n - 1, date, key)

\* the positive points of key over the first n periods, in period order
RECURSIVE expectedSeries(_, _)
expectedSeries(n, key) ==
    IF n = 0 THEN <<>>
    ELSE expectedSeries(n - 1, key) \o
         positivePoints(results[n].Groups, Len(results[n].Groups),
                        results[n].TimePeriod.Start, key)

\* C11: grouped series content: for every discovered key the series built by
\* getGroupedAwsProducts / getGroupedAwsProjects is the list, in input period
\* order, of (period start date, amount) of the occurrences of the key with an
\* amount above zero, and the key is in the output iff that list is not empty
\* (a key with 5 on 2021-01-01 and -5 on 2021-01-02 gives the one point
\* (2021-01-01, 5)).
C11_SeriesContent ==
    (called("getGroupedAwsProducts") \/ called("getGroupedAwsProjects")) =>
        /\ \A i \in DOMAIN ret.val : ret.val[i].Id \in { keyAt(p) : p \in places }
        /\ \A k \in { keyAt(p) : p \in places } :
            LET expected == expectedSeries(Len(results), k)
                at == { i \in DOMAIN ret.val : ret.val[i].Id = k }
            IN  /\ Cardinality(at) = IF expected = <<>> THEN 0 ELSE 1
                /\ \A i \in at : ret.val[i].Aggregation = expected

C11_Witness ==
    /\ called("getGroupedAwsProducts")
    /\ Len(results) >= 2
    /\ \E k \in { keyAt(p) : p \in places } :
        /\ positivePoints(results[1].Groups, Len(results[1].Groups), Dates[1], k) # <<>>
        /\ \E j \in DOMAIN results[2].Groups :
              results[2].Groups[j].Keys[1] = k /\ amountOf(results[2].Groups[j]).num < 0
        /\ \E i \in DOMAIN ret.val :
              /\ ret.val[i].Id = k
              /\ ret.val[i].Aggregation = << [Date |-> "2021-01-01", Amount |-> Rat(5, 1)] >>

\* the cost metric amount of period p, as aggregationForAWS reads it
costOf(p) == CHOOSE v \in lastMetric(results[p].Total, viper.cost_round, Zero) : TRUE

\* the one surcharge of the window: 0 when the support-cost flag is off
surcharge ==
    IF viper.support_cost
    THEN SupportCostForAWS(AwsAccountsLookup(viper.account_type), results).val
    ELSE Zero

\* amount(p) for the share S / n of the surcharge
amountAt(p, share) == RAdd(costOf(p), share)

\* the periods among the first n with amount(p) above zero, in input order
RECURSIVE expectedDates(_, _)
expectedDates(n, share) ==
    IF n = 0 THEN <<>>
    ELSE LET amount == amountAt(n, share)
         IN  IF amount.num > 0
             THEN Append(expectedDates(n - 1, share),
                         [Date |-> results[n].TimePeriod.Start, Amount |-> amount])
             ELSE expectedDates(n - 1, share)

\* C12: date-series aggregation: aggregationForAWS computes one surcharge S
\* for the window (0 when the support-cost flag is off) and for each of the n
\* periods amount(p) = cost(p) + S / n; what it returns is the sub-sequence
\* of the periods with amount(p) > 0, in input order, each with its start
\* date and amount(p).
C12_DateSeries ==
    called("aggregationForAWS") =>
        LET S == surcharge
            n == Len(results)
        IN  ret.val = IF n = 0 THEN <<>> ELSE expectedDates(n, Rat(S.num, S.den * n))

C12_Witness ==
    /\ called("aggregationForAWS")
    /\ viper.support_cost
    /\ Len(results) = 3
    /\ surcharge = Rat(100, 1)
    /\ \E p \in DOMAIN results : costOf(p).num < 0
    /\ Len(ret.val) = 3
    /\ \A p \in DOMAIN results :
          ret.val[p].Amount = RAdd(costOf(p), Rat(100, 3))

\* the final [before, after] pair of key: its sums over the two index ranges
pairOf(key) ==
    << periodsSum(1, Len(results) \div 2, key),
       periodsSum(Len(results) \div 2 + 1, Len(results), key) >>

\* C13: entity drop rule: getEntityAwsProducts returns an entity for a
\* discovered key iff the key's final [before, after] pair is not both exactly
\* zero; a key with a non-zero bucket is returned exactly once, and a key whose
\* amounts cancel to zero in both buckets (or that never had a non-zero amount)
\* is absent.
C13_EntityDropRule ==
    called("getEntityAwsProducts") =>
        /\ \A e \in DOMAIN ret.val : ret.val[e].Id \in { keyAt(p) : p \in places }
        /\ \A k \in { keyAt(p) : p \in places } :
            Cardinality({ e \in DOMAIN ret.val : ret.val[e].Id = k }) =
                IF pairOf(k) = <<Zero, Zero>> THEN 0 ELSE 1

C13_Witness ==
    /\ called("getEntityAwsProducts")
    /\ \E k \in { keyAt(p) : p \in places } :
        /\ \E p \in places : keyAt(p) = k /\ amountOf(results[p[1]].Groups[p[2]]) # Zero
        /\ pairOf(k) = <<Zero, Zero>>
        /\ \A e \in DOMAIN ret.val : ret.val[e].Id # k

\* the sum of the amounts of the first n of `groups`
RECURSIVE groupsTotal(_, _)
groupsTotal(groups, n) ==
    IF n = 0 THEN Zero ELSE RAdd(groupsTotal(groups, n - 1), amountOf(groups[n]))

\* the sum of all group amounts of the periods lo..hi (counted from 1)
RECURSIVE periodsTotal(_, _)
periodsTotal(lo, hi) ==
    IF hi < lo THEN Zero
    ELSE RAdd(periodsTotal(lo, hi - 1),
              groupsTotal(results[hi].Groups, Len(results[hi].Groups)))

\* the sum of bucket b over the entities at the positions in `at`
RECURSIVE bucketTotal(_, _, _)
bucketTotal(entities, at, b) ==
    IF at = {} THEN Zero
    ELSE LET e == CHOOSE x \in at : TRUE
         IN  RAdd(entities[e].Aggregation[b], bucketTotal(entities, at \ {e}, b))

\* C14: parent entity total: the Aggregation GetProductInsights returns for
\* the parent entity is the elementwise sum of the [before, after] pairs of
\* the entities getEntityAwsProducts returned, and so equals [the sum of all
\* group amounts of the periods with index < midpoint, the sum of those with
\* index >= midpoint], the dropped groups adding zero.
C14_ParentTotal ==
    called("GetProductInsights") =>
        LET n == Len(results)
            entities == ret.val.Entities
        IN  /\ Return(entities) \in getEntityAwsProducts(results, viper.cost_round)
            /\ ret.val.Aggregation = << bucketTotal(entities, DOMAIN entities, 1),
                                        bucketTotal(entities, DOMAIN entities, 2) >>
            /\ ret.val.Aggregation = << periodsTotal(1, n \div 2),
                                        periodsTotal(n \div 2 + 1, n) >>

C14_Witness ==
    /\ called("GetProductInsights")
    /\ Len(results) = 3
    /\ Len(ret.val.Entities) = 2
    /\ ret.val.Entities[1].Aggregation[1] # Zero
    /\ ret.val.Entities[2].Aggregation[2] # Zero
    /\ ret.val.Aggregation[1] # Zero
    /\ ret.val.Aggregation[2] # Zero
    /\ ret.val.Aggregation[1] # ret.val.Aggregation[2]

====
